---- MODULE Spec2Model ----
\* A model of src/src/main.rs: main (arguments, the open of the output file,
\* channel_files and walkdir, the parse loop, the windowing loop, the final
\* write of ./prompt-<who>.json) and get_prompt (reference scan and backward
\* walk).
\*
\* Conventions.
\*  - Vec indices are the code's 0-based usize values; At(s, k) reads s[k].
\*  - A String is a sequence of one-character strings, so that join("\n") and
\*    the number of lines of a prompt are computed, not assumed.
\*  - A chrono::DateTime<Utc> is an integer number of seconds; NumMinutes is
\*    TimeDelta::num_minutes (whole minutes, truncated toward zero).
\*  - Option<T> is a set with at most one element: {} is None, {x} is Some(x).
\*  - The result of simd_json::from_reader(file) is an input: a file is
\*    [ok |-> FALSE, ...] (the open or from_reader returns Err) or
\*    [ok |-> TRUE, data |-> v].
\*  - The directory tree under the first argument is an input: a node is
\*    [dir |-> FALSE] (read_dir returns Err: missing, or not a directory) or
\*    [dir |-> TRUE, entries |-> <<..>>] in read_dir order. An entry of the
\*    root has an optional "threads" node and an optional channel_messages.json;
\*    an entry of a "threads" directory has an optional thread_messages.json.
\*    A PathBuf of a messages file stands for the file behind it.
\*  - A panic (expect, unwrap, arithmetic overflow) ends the run.
EXTENDS Integers, Sequences, FiniteSets

VARIABLES
    args,            \* input: std::env::args() after the program name
    root,            \* input: the directory tree under the first argument
    prior,           \* input: state of ./prompt-<who>.json before the run
    room,            \* input: what the device takes of the output, once opened
    who,             \* main: the target author id
    channel_files,   \* main: the Vec<PathBuf> of discovered message files
    disk,            \* state of ./prompt-<who>.json on disk
    pc,              \* position of main / get_prompt
    completed,       \* main: number of files taken by the parse loop
    channels,        \* main: Vec<Vec<Message>>
    replies,         \* main: Vec<Reply>
    channel_index,   \* main: position of `for channel in channels`
    index,           \* main: position of `channel.iter().enumerate()`
    innerdex,        \* get_prompt: the walk cursor
    outputs,         \* get_prompt: Vec<String> of collected contents
    reference_time,  \* get_prompt: the time the cutoff is measured from
    reply_index,     \* get_prompt: position of the reference scan
    picked,          \* history: picked[k] is the index outputs[k] was cloned from
    anchor,          \* history: the value of innerdex when the walk began
    origin           \* history: origin[k] records where replies[k] came from

vars == <<args, root, prior, room, who, channel_files, disk, pc, completed, channels, replies,
          channel_index, index, innerdex, outputs, reference_time,
          reply_index, picked, anchor, origin>>

\* ---------------------------------------------------------------- bounds

MaxFiles == 2        \* files of an archive in the pipeline inputs
MaxChannels == 2     \* entries of the root directory in the tree inputs
MaxSortLen == 3      \* messages of a file in the sorting inputs
WinLen == 4          \* messages of a file in the windowing inputs
CapLen == 9          \* messages of a file in the long-channel inputs
NumIds == 2          \* distinct message ids in the sorting and reference inputs
NumUsers == 3        \* distinct user ids in the worked-example inputs
Tick == 400          \* seconds between the coarse timestamps
Step == 150          \* seconds between the fine timestamps

\* ------------------------------------------------------- program constants

MaxContext == 5      \* outputs.len() < 5
WindowMinutes == 10  \* .num_minutes() <= 10

\* ---------------------------------------------------------------- helpers

NL == "\n"

\* messages[k] for a 0-based k.
At(s, k) == s[k + 1]

\* chrono::TimeDelta::num_minutes of a difference of d seconds.
NumMinutes(d) == IF d >= 0 THEN d \div 60 ELSE -((-d) \div 60)

\* Message { id, author, content, timestamp, reference } built from a
\* DiscordMessage; message_reference.map(|v| v.message_id).flatten().
ToMessage(v) ==
    [id |-> v.id,
     content |-> v.content,
     timestamp |-> v.timestamp,
     author |-> v.author.id,
     reference |-> UNION {r.message_id : r \in v.message_reference}]

MapToMessage(data) == [k \in 1..Len(data) |-> ToMessage(data[k])]

\* A sort that puts equal timestamps in reverse arrival order.
RECURSIVE InsertBeforeEqual(_, _)
InsertBeforeEqual(sorted, m) ==
    IF sorted = <<>> THEN <<m>>
    ELSE IF sorted[Len(sorted)].timestamp < m.timestamp
         THEN Append(sorted, m)
         ELSE Append(InsertBeforeEqual(SubSeq(sorted, 1, Len(sorted) - 1), m),
                     sorted[Len(sorted)])

\* One insertion of the stable sort: m goes after every element that does not
\* compare greater (a.timestamp.cmp(&b.timestamp)).
RECURSIVE InsertByTimestamp(_, _)
InsertByTimestamp(sorted, m) ==
    IF sorted = <<>> THEN <<m>>
    ELSE IF sorted[Len(sorted)].timestamp <= m.timestamp
         THEN Append(sorted, m)
         ELSE Append(InsertByTimestamp(SubSeq(sorted, 1, Len(sorted) - 1), m),
                     sorted[Len(sorted)])

\* messages.sort_by(|a, b| a.timestamp.cmp(&b.timestamp)): slice::sort_by is a
\* stable sort.
RECURSIVE SortByTimestamp(_)
SortByTimestamp(s) ==
    IF s = <<>> THEN <<>>
    ELSE InsertByTimestamp(SortByTimestamp(SubSeq(s, 1, Len(s) - 1)), s[Len(s)])

\* A filter that forgets the content test.
SkippedByAuthorOnly(message, target) == message.author # target

\* The `continue` test of the windowing loop.
Skipped(message, target) ==
    message.author # target \/ message.content = <<>>

\* A scan that also looks at the message just before the reply.
ScanEndInclusive(i) == i

\* The end of the slice messages[0..innerdex] the reference scan runs over,
\* innerdex being index - 1 at that point.
ScanEnd(i) == i - 1

\* A scan hit that leaves the cursor one too high.
ScanHitNext(k) == k + 1

\* innerdex = reply_index on a scan hit.
ScanHit(k) == k

\* A walk condition without the authorship test.
WalkCondAnyAuthor(messages, cursor, collected, target, ref_time) ==
    /\ cursor # 0
    /\ Len(collected) < MaxContext
    /\ NumMinutes(At(messages, cursor).timestamp - ref_time) <= WindowMinutes

\* A walk condition that admits one entry too many.
WalkCondOffByOne(messages, cursor, collected, target, ref_time) ==
    /\ cursor # 0
    /\ Len(collected) <= MaxContext
    /\ At(messages, cursor).author # target
    /\ NumMinutes(At(messages, cursor).timestamp - ref_time) <= WindowMinutes

\* A walk condition without the cursor test.
WalkCondNoZero(messages, cursor, collected, target, ref_time) ==
    /\ Len(collected) < MaxContext
    /\ At(messages, cursor).author # target
    /\ NumMinutes(At(messages, cursor).timestamp - ref_time) <= WindowMinutes

\* The condition of the while loop of get_prompt, evaluated left to right.
WalkCond(messages, cursor, collected, target, ref_time) ==
    /\ cursor # 0
    /\ Len(collected) < MaxContext
    /\ At(messages, cursor).author # target
    /\ NumMinutes(At(messages, cursor).timestamp - ref_time) <= WindowMinutes

\* outputs.reverse()
Reverse(s) == [k \in 1..Len(s) |-> s[Len(s) + 1 - k]]

\* outputs.join("\n")
RECURSIVE Join(_)
Join(s) ==
    IF s = <<>> THEN <<>>
    ELSE IF Len(s) = 1 THEN s[1]
    ELSE s[1] \o <<NL>> \o Join(Tail(s))

Digits == <<"0", "1", "2", "3", "4", "5", "6", "7", "8", "9">>

IsDigit(c) == \E k \in DOMAIN Digits : Digits[k] = c

DigitValue(c) == (CHOOSE k \in DOMAIN Digits : Digits[k] = c) - 1

RECURSIVE DecimalValue(_)
DecimalValue(chars) ==
    IF chars = <<>> THEN 0
    ELSE 10 * DecimalValue(SubSeq(chars, 1, Len(chars) - 1))
            + DigitValue(chars[Len(chars)])

\* The decimal digits of u64::MAX, 18446744073709551615.
U64MaxDigits ==
    <<"1", "8", "4", "4", "6", "7", "4", "4", "0", "7",
      "3", "7", "0", "9", "5", "5", "1", "6", "1", "5">>

RECURSIVE StripZeros(_)
StripZeros(digits) ==
    IF digits # <<>> /\ digits[1] = "0" THEN StripZeros(Tail(digits)) ELSE digits

\* The number written by `digits` is above u64::MAX: it has more significant
\* digits, or as many and a greater digit at the first difference.
PosOverflow(digits) ==
    LET d == StripZeros(digits) IN
    \/ Len(d) > Len(U64MaxDigits)
    \/ /\ Len(d) = Len(U64MaxDigits)
       /\ \E k \in DOMAIN d :
            /\ \A j \in 1..(k - 1) : d[j] = U64MaxDigits[j]
            /\ DigitValue(d[k]) > DigitValue(U64MaxDigits[k])

\* who_string.parse::<u64>(): an optional "+", then one digit or more, of a
\* number that fits a u64; {} is Err (Empty, InvalidDigit, PosOverflow).
ParseU64(chars) ==
    LET digits == IF chars # <<>> /\ chars[1] = "+" THEN Tail(chars) ELSE chars IN
    IF /\ digits # <<>>
       /\ \A k \in DOMAIN digits : IsDigit(digits[k])
       /\ ~PosOverflow(digits)
    THEN {DecimalValue(digits)}
    ELSE {}

\* std::env::args().nth(1) and .nth(2) are Some and the second parses.
ArgsOk(list) == Len(list) >= 2 /\ ParseU64(list[2]) # {}

\* walkdir(path): path.read_dir().unwrap() panics on a path that is missing
\* or is no directory; otherwise the paths of the entries.
WalkdirPanics(node) == ~node.dir
Walkdir(node) == node.entries

\* channel_files: some walkdir call of it panics, on the root or on an
\* existing "threads" path.
ChannelFilesPanics(root_path) ==
    \/ WalkdirPanics(root_path)
    \/ \E k \in DOMAIN Walkdir(root_path) :
          \E threads_dir \in Walkdir(root_path)[k].threads : WalkdirPanics(threads_dir)

\* The first loop of channel_files: the entries of every existing "threads"
\* directory, appended in the order of the channel directories.
RECURSIVE ThreadDirs(_)
ThreadDirs(channel_dirs) ==
    IF channel_dirs = <<>> THEN <<>>
    ELSE (IF channel_dirs[1].threads = {} THEN <<>>
          ELSE Walkdir(CHOOSE threads_dir \in channel_dirs[1].threads : TRUE))
         \o ThreadDirs(Tail(channel_dirs))

\* The second and the third loop of channel_files: the messages file of every
\* directory that has one, in the order of the directories.
RECURSIVE ExistingMessages(_)
ExistingMessages(dirs) ==
    IF dirs = <<>> THEN <<>>
    ELSE (IF dirs[1].messages = {} THEN <<>>
          ELSE <<CHOOSE messages_path \in dirs[1].messages : TRUE>>)
         \o ExistingMessages(Tail(dirs))

\* channel_files(root_path): the channel files, then the thread files.
ChannelFilesOf(root_path) ==
    ExistingMessages(Walkdir(root_path))
        \o ExistingMessages(ThreadDirs(Walkdir(root_path)))

\* ----------------------------------------------------------------- inputs

Empty == <<>>
A == <<"a">>
B == <<"b">>
TwoLines == <<"a", NL, "b">>

NoReference == {}                         \* "message_reference" absent / null
ReferenceNoId == {[message_id |-> {}]}    \* present, "message_id" absent
ReferenceTo(x) == {[message_id |-> {x}]}  \* present, with a message id

Raw(id, content, timestamp, author, message_reference) ==
    [id |-> id, content |-> content, timestamp |-> timestamp,
     author |-> [id |-> author], message_reference |-> message_reference]

Malformed == [ok |-> FALSE, data |-> <<>>]
Parsed(data) == [ok |-> TRUE, data |-> data]

NotADirectory == [dir |-> FALSE, entries |-> <<>>]
Directory(entries) == [dir |-> TRUE, entries |-> entries]

ChannelDir(threads, messages) == [threads |-> threads, messages |-> messages]
ThreadDir(messages) == [messages |-> messages]

\* A root directory of one channel directory per file, none with threads.
Flat(files) ==
    Directory([k \in 1..Len(files) |-> ChannelDir({}, {files[k]})])

RootArg == <<"r">>
WhoArg(target) == <<Digits[target + 1]>>

\* A run on the files `files`, one per channel, for the author `target`.
Input(files, target, before) ==
    [args |-> <<RootArg, WhoArg(target)>>, root |-> Flat(files), prior |-> before,
     room |-> "all"]

\* The process has started; nothing is read, opened or parsed yet.
StartOn(inp) ==
    /\ args = inp.args
    /\ root = inp.root
    /\ prior = inp.prior
    /\ room = inp.room
    /\ disk = [state |-> inp.prior, pairs |-> <<>>]

SeqsUpTo(S, n) == UNION {[1..k -> S] : k \in 0..n}

NonDecreasing(S, n) ==
    {t \in [1..n -> S] : \A k \in 1..(n - 1) : t[k] <= t[k + 1]}

\* Archives of up to MaxFiles files, some malformed, with the output file
\* absent or left over from an earlier run.
PipelineFiles ==
    {Malformed,
     Parsed(<<>>),
     Parsed(<<Raw(1, A, 0, 2, NoReference), Raw(2, A, 0, 2, NoReference),
              Raw(3, B, Tick, 1, NoReference)>>),
     Parsed(<<Raw(4, B, Tick, 1, NoReference), Raw(5, A, 0, 2, NoReference),
              Raw(6, Empty, Tick, 1, ReferenceTo(5)), Raw(7, A, 0, 2, NoReference),
              Raw(8, B, 2 * Tick, 1, NoReference)>>)}

PipelineInputs ==
    \E f \in SeqsUpTo(PipelineFiles, MaxFiles), p \in {"absent", "stale"} :
        StartOn(Input(f, 1, p))

\* Argument lists that are complete or not, output paths that can be opened
\* or not (a directory), and directory trees that are missing, or hold up to
\* MaxChannels entries with or without messages file and "threads".
TreeFile == Parsed(<<Raw(1, A, 0, 2, NoReference), Raw(2, A, 0, 2, NoReference),
                     Raw(3, B, Tick, 1, NoReference)>>)

TreeThreadFile == Parsed(<<Raw(4, A, 0, 2, NoReference), Raw(5, B, 0, 2, NoReference),
                           Raw(6, A, Tick, 1, NoReference)>>)

TreeChannels ==
    {ChannelDir({}, {}),
     ChannelDir({}, {TreeFile}),
     ChannelDir({NotADirectory}, {TreeFile}),
     ChannelDir({Directory(<<ThreadDir({TreeThreadFile}), ThreadDir({})>>)}, {TreeFile}),
     ChannelDir({Directory(<<ThreadDir({Malformed})>>)}, {})}

\* 18446744073709551616, one above u64::MAX.
TooLong == SubSeq(U64MaxDigits, 1, Len(U64MaxDigits) - 1) \o <<"6">>

TreeArgs ==
    {<<>>, <<RootArg>>, <<RootArg, <<"x">>>>, <<RootArg, <<>>>>, <<RootArg, <<"+">>>>,
     <<RootArg, <<"-", "1">>>>, <<RootArg, TooLong>>, <<RootArg, <<"9">> \o TooLong>>,
     <<RootArg, <<"1">>>>, <<RootArg, <<"+", "1">>>>, <<RootArg, <<"0", "1">>>>,
     <<RootArg, <<"1", "2">>>>}

TreeInputs ==
    \E a \in TreeArgs,
       r \in {NotADirectory}
                \cup {Directory(e) : e \in SeqsUpTo(TreeChannels, MaxChannels)},
       p \in {"absent", "stale", "directory"},
       w \in {"all", "part", "none"} :
        StartOn([args |-> a, root |-> r, prior |-> p, room |-> w])

\* One file of up to MaxSortLen messages in any order of timestamps.
SortMessages ==
    {Raw(i, A, t, IF i = 1 THEN 1 ELSE 2, NoReference) :
        i \in 1..NumIds, t \in {0, Tick}}

SortInputs ==
    \E d \in SeqsUpTo(SortMessages, MaxSortLen) :
        StartOn(Input(<<Parsed(d)>>, 1, "absent"))

\* One file of WinLen messages in timestamp order whose last message is a
\* reply of the target author, with or without a reference; the messages
\* before it are of either author, with or without content.
WindowTimes == {0, Tick, 2 * Tick}

WindowKinds == {<<author, content>> : author \in {1, 2}, content \in {Empty, A}}

WindowReferences ==
    {NoReference, ReferenceNoId} \cup {ReferenceTo(x) : x \in 1..(WinLen + 1)}

WindowFile(kinds, times, reference) ==
    [k \in 1..WinLen |->
        IF k < WinLen
        THEN Raw(k, kinds[k][2], times[k], kinds[k][1], NoReference)
        ELSE Raw(k, B, times[k], 1, reference)]

WindowInputs ==
    \E kinds \in [1..(WinLen - 1) -> WindowKinds],
       times \in NonDecreasing(WindowTimes, WinLen),
       reference \in WindowReferences :
        StartOn(Input(<<Parsed(WindowFile(kinds, times, reference))>>, 1, "absent"))

\* One file of WinLen messages with ids that may repeat, one of them a reply
\* of the target author that refers to an id before it, on it, after it or
\* nowhere.
ReferenceFile(ids, p, target, x) ==
    [k \in 1..WinLen |->
        IF k = p
        THEN Raw(ids[k], B, k * Step, target, ReferenceTo(x))
        ELSE Raw(ids[k], A, k * Step, 3 - target, NoReference)]

ReferenceInputs ==
    \E ids \in [1..WinLen -> 1..NumIds],
       p \in 1..WinLen,
       target \in {1, 2},
       x \in 1..(NumIds + 1) :
        StartOn(Input(<<Parsed(ReferenceFile(ids, p, target, x))>>, target, "absent"))

\* One file of CapLen messages, one second apart: a first message, messages
\* of another author with no content, one line or two lines, then a reply of
\* the target author.
CapFile(contents) ==
    [k \in 1..CapLen |->
        IF k = 1 THEN Raw(k, A, k, 2, NoReference)
        ELSE IF k < CapLen THEN Raw(k, contents[k], k, 2, NoReference)
        ELSE Raw(k, B, k, 1, NoReference)]

CapInputs ==
    \E contents \in [2..(CapLen - 1) -> {Empty, A, TwoLines}] :
        StartOn(Input(<<Parsed(CapFile(contents))>>, 1, "absent"))

\* The worked example: "hi" and "yo" of two other authors, then "sup" and
\* "ok" of the target author, at four increasing instants, with references
\* that are absent or name no message of the file.
Hi == <<"h", "i">>
Yo == <<"y", "o">>
Sup == <<"s", "u", "p">>
Ok == <<"o", "k">>

Users == 1..NumUsers

ExampleTimes ==
    {t \in [1..4 -> {k * Step : k \in 0..4}] : \A k \in 1..3 : t[k] < t[k + 1]}

ExampleReferences == {NoReference, ReferenceNoId, ReferenceTo(9)}

ExampleInputs ==
    \E target \in Users :
    \E a \in Users \ {target}, b \in Users \ {target},
       t \in ExampleTimes,
       r3 \in ExampleReferences, r4 \in ExampleReferences :
        StartOn(Input(<<Parsed(<<Raw(1, Hi, t[1], a, NoReference),
                               Raw(2, Yo, t[2], b, NoReference),
                               Raw(3, Sup, t[3], target, r3),
                               Raw(4, Ok, t[4], target, r4)>>)>>, target, "absent"))

\* ------------------------------------------------------------------- Init

Init ==
    /\ \/ TreeInputs
       \/ PipelineInputs
       \/ SortInputs
       \/ WindowInputs
       \/ ReferenceInputs
       \/ CapInputs
       \/ ExampleInputs
    /\ pc = "args"
    /\ who = 0
    /\ channel_files = <<>>
    /\ completed = 0
    /\ channels = <<>>
    /\ replies = <<>>
    /\ channel_index = 0
    /\ index = 0
    /\ innerdex = 0
    /\ outputs = <<>>
    /\ reference_time = 0
    /\ reply_index = 0
    /\ picked = <<>>
    /\ anchor = 0
    /\ origin = <<>>

\* ---------------------------------------------------------------- actions

Locals == <<innerdex, outputs, reference_time, reply_index, picked, anchor>>
Given == <<args, root, prior, room>>
Setup == <<who, channel_files>>
Pairing == <<completed, channels, replies, channel_index, index, Locals, origin>>

\* root_path, who_string and who are read from the arguments.
ReadArgs ==
    /\ pc = "args"
    /\ ArgsOk(args)
    /\ who' = CHOOSE n \in ParseU64(args[2]) : TRUE
    /\ pc' = "open"
    /\ UNCHANGED <<Given, channel_files, disk, Pairing>>

\* An argument is missing (expect panics) or the second is no u64 (unwrap
\* panics).
ArgsFail ==
    /\ pc = "args"
    /\ ~ArgsOk(args)
    /\ pc' = "aborted"
    /\ UNCHANGED <<Given, Setup, disk, Pairing>>

\* OpenOptions::new().write(true).truncate(true).create(true).open(..) returns
\* Ok: the file exists and is empty.
OpenOutFile ==
    /\ pc = "open"
    /\ prior # "directory"
    /\ disk' = [state |-> "truncated", pairs |-> <<>>]
    /\ pc' = "discover"
    /\ UNCHANGED <<Given, Setup, Pairing>>

\* The open returns Err (the path is a directory): unwrap() panics, nothing
\* is created or truncated.
OpenFail ==
    /\ pc = "open"
    /\ prior = "directory"
    /\ pc' = "aborted"
    /\ UNCHANGED <<Given, Setup, disk, Pairing>>

\* channel_files(root_path) returns the discovered files.
ChannelFiles ==
    /\ pc = "discover"
    /\ ~ChannelFilesPanics(root)
    /\ channel_files' = ChannelFilesOf(root)
    /\ pc' = "parse"
    /\ UNCHANGED <<Given, who, disk, Pairing>>

\* A walkdir call of channel_files panics, the output file already opened.
ChannelFilesFail ==
    /\ pc = "discover"
    /\ ChannelFilesPanics(root)
    /\ pc' = "aborted"
    /\ UNCHANGED <<Given, Setup, disk, Pairing>>

\* One iteration of `for messages_json in channel_files` whose from_reader
\* returns Ok: convert, sort, push.
ParseFile ==
    /\ pc = "parse"
    /\ completed < Len(channel_files)
    /\ channel_files[completed + 1].ok
    /\ completed' = completed + 1
    /\ channels' = Append(channels,
                          SortByTimestamp(MapToMessage(channel_files[completed + 1].data)))
    /\ UNCHANGED <<Given, Setup, disk, pc, replies, channel_index, index, Locals, origin>>

\* One iteration whose open or from_reader returns Err: unwrap() panics.
ParseFail ==
    /\ pc = "parse"
    /\ completed < Len(channel_files)
    /\ ~channel_files[completed + 1].ok
    /\ completed' = completed + 1
    /\ pc' = "aborted"
    /\ UNCHANGED <<Given, Setup, disk, channels, replies, channel_index, index,
                   Locals, origin>>

\* The parse loop is over; `for channel in channels` begins.
StartWindowing ==
    /\ pc = "parse"
    /\ completed = Len(channel_files)
    /\ pc' = "window"
    /\ channel_index' = 0
    /\ index' = 0
    /\ UNCHANGED <<Given, Setup, disk, completed, channels, replies, Locals, origin>>

Channel == channels[channel_index + 1]

\* `continue` on a message of another author or with empty content.
SkipMessage ==
    /\ pc = "window"
    /\ channel_index < Len(channels)
    /\ index < Len(Channel)
    /\ Skipped(At(Channel, index), who)
    /\ index' = index + 1
    /\ UNCHANGED <<Given, Setup, disk, pc, completed, channels, replies,
                   channel_index, Locals, origin>>

\* get_prompt(&channel, index, who) up to the reference test: None at index 0,
\* otherwise the cursor and reference time are set and the scan or the walk
\* comes next.
CallGetPrompt ==
    /\ pc = "window"
    /\ channel_index < Len(channels)
    /\ index < Len(Channel)
    /\ ~Skipped(At(Channel, index), who)
    /\ IF index = 0
       THEN /\ index' = index + 1
            /\ UNCHANGED <<pc, Locals>>
       ELSE /\ innerdex' = index - 1
            /\ anchor' = index - 1
            /\ outputs' = <<>>
            /\ picked' = <<>>
            /\ reference_time' = At(Channel, index).timestamp
            /\ reply_index' = 0
            /\ pc' = IF At(Channel, index).reference # {} THEN "scan" ELSE "walk"
            /\ UNCHANGED index
    /\ UNCHANGED <<Given, Setup, disk, completed, channels, replies, channel_index, origin>>

\* One iteration of the scan over messages[0..innerdex], or its end.
ScanStep ==
    /\ pc = "scan"
    /\ IF reply_index >= ScanEnd(index)
       THEN /\ pc' = "walk"
            /\ UNCHANGED <<innerdex, anchor, reference_time, reply_index>>
       ELSE IF {At(Channel, reply_index).id} = At(Channel, index).reference
       THEN /\ innerdex' = ScanHit(reply_index)
            /\ anchor' = ScanHit(reply_index)
            /\ reference_time' = At(Channel, reply_index).timestamp
            /\ pc' = "walk"
            /\ UNCHANGED reply_index
       ELSE /\ reply_index' = reply_index + 1
            /\ UNCHANGED <<pc, innerdex, anchor, reference_time>>
    /\ UNCHANGED <<Given, Setup, disk, completed, channels, replies, channel_index,
                   index, outputs, picked, origin>>

\* One iteration of the while loop. `innerdex -= 1` on 0 is an arithmetic
\* overflow of usize, a panic.
WalkStep ==
    /\ pc = "walk"
    /\ WalkCond(Channel, innerdex, outputs, who, reference_time)
    /\ IF innerdex = 0
       THEN /\ pc' = "panicked"
            /\ UNCHANGED <<innerdex, outputs, picked>>
       ELSE /\ innerdex' = innerdex - 1
            /\ IF At(Channel, innerdex).content = <<>>
               THEN UNCHANGED <<outputs, picked>>
               ELSE /\ outputs' = Append(outputs, At(Channel, innerdex).content)
                    /\ picked' = Append(picked, innerdex)
            /\ UNCHANGED pc
    /\ UNCHANGED <<Given, Setup, disk, completed, channels, replies, channel_index,
                   index, reference_time, reply_index, anchor, origin>>

\* The loop condition fails: None, or Some(reversed and joined outputs) and
\* replies.push(Reply { prompt, reply }).
WalkExit ==
    /\ pc = "walk"
    /\ ~WalkCond(Channel, innerdex, outputs, who, reference_time)
    /\ IF outputs = <<>>
       THEN UNCHANGED <<replies, origin>>
       ELSE /\ replies' = Append(replies,
                                 [prompt |-> Join(Reverse(outputs)),
                                  reply |-> At(Channel, index).content])
            /\ origin' = Append(origin,
                                [channel |-> channel_index,
                                 index |-> index,
                                 picked |-> Reverse(picked),
                                 anchor |-> anchor,
                                 reference_time |-> reference_time])
    /\ index' = index + 1
    /\ pc' = "window"
    /\ innerdex' = 0
    /\ outputs' = <<>>
    /\ picked' = <<>>
    /\ reference_time' = 0
    /\ reply_index' = 0
    /\ anchor' = 0
    /\ UNCHANGED <<Given, Setup, disk, completed, channels, channel_index>>

\* The inner for loop is over: the next channel.
NextChannel ==
    /\ pc = "window"
    /\ channel_index < Len(channels)
    /\ index = Len(Channel)
    /\ channel_index' = channel_index + 1
    /\ index' = 0
    /\ UNCHANGED <<Given, Setup, disk, pc, completed, channels, replies, Locals, origin>>

\* serde_json::to_writer(out_file, &replies) returns Ok: the file holds the
\* pairs.
WriteOut ==
    /\ pc = "window"
    /\ channel_index = Len(channels)
    /\ room = "all"
    /\ disk' = [state |-> "written", pairs |-> replies]
    /\ pc' = "done"
    /\ UNCHANGED <<Given, Setup, completed, channels, replies, channel_index, index,
                   Locals, origin>>

\* to_writer returns Err (device full, file size limit): unwrap() panics. The
\* file keeps what the device took before the failing write: nothing, or a
\* proper prefix of the JSON text.
WriteFail ==
    /\ pc = "window"
    /\ channel_index = Len(channels)
    /\ room # "all"
    /\ disk' = IF room = "part" THEN [state |-> "partial", pairs |-> <<>>] ELSE disk
    /\ pc' = "aborted"
    /\ UNCHANGED <<Given, Setup, completed, channels, replies, channel_index, index,
                   Locals, origin>>

Next ==
    \/ ReadArgs
    \/ ArgsFail
    \/ OpenOutFile
    \/ OpenFail
    \/ ChannelFiles
    \/ ChannelFilesFail
    \/ ParseFile
    \/ ParseFail
    \/ StartWindowing
    \/ SkipMessage
    \/ CallGetPrompt
    \/ ScanStep
    \/ WalkStep
    \/ WalkExit
    \/ NextChannel
    \/ WriteOut
    \/ WriteFail

Spec == Init /\ [][Next]_vars

\* ------------------------------------------------- vocabulary of the claims

Min(S) == CHOOSE x \in S : \A y \in S : x <= y

\* Number of newline-separated lines of a text.
Lines(text) == 1 + Cardinality({k \in DOMAIN text : text[k] = NL})

RECURSIVE SumLines(_)
SumLines(texts) ==
    IF texts = <<>> THEN 0 ELSE Lines(texts[1]) + SumLines(Tail(texts))

WindowSeconds == WindowMinutes * 60

\* The positions before i - 1 whose id is the reference of the message at i.
ReferenceHits(messages, i) ==
    {r \in 0..(i - 2) : {At(messages, r).id} = At(messages, i).reference}

\* The k-th emitted pair: its channel, its reply and the messages its prompt
\* was collected from, oldest first.
Emitted == DOMAIN replies
Msgs(k) == channels[origin[k].channel + 1]
Trigger(k) == At(Msgs(k), origin[k].index)
Sources(k) == [j \in DOMAIN origin[k].picked |-> At(Msgs(k), origin[k].picked[j])]
SourcePositions(k) == {origin[k].picked[j] : j \in DOMAIN origin[k].picked}

\* The prompt of every emitted pair is the join of the contents of its
\* sources, and its reply is the content of its triggering message.
Provenance ==
    /\ Len(origin) = Len(replies)
    /\ \A k \in Emitted :
          /\ replies[k].prompt = Join([j \in DOMAIN Sources(k) |-> Sources(k)[j].content])
          /\ replies[k].reply = Trigger(k).content

InGetPrompt == pc \in {"scan", "walk"}

\* ------------------------------------------------------------------- C1

\* C1 (time bound): every line of every emitted prompt comes from a message
\* whose timestamp is strictly before the resolved reference time and at most
\* 10 minutes before it.
C1_TimeBound ==
    \A k \in Emitted : \A j \in DOMAIN Sources(k) :
        /\ Sources(k)[j].timestamp < origin[k].reference_time
        /\ origin[k].reference_time - Sources(k)[j].timestamp <= WindowSeconds

\* ------------------------------------------------------------------- C2

\* C2 (parse-error atomicity): in a run whose channel_files holds a file that fails
\* to parse, the destination file is never created, truncated or modified.
C2_NoOutputOnParseError ==
    (\E f \in DOMAIN channel_files : ~channel_files[f].ok) => disk.state = prior

\* ------------------------------------------------------------------- C3

\* The sequence of the worked example: two distinct other authors, then two
\* messages of the target author, all with content, at increasing instants
\* within 10 minutes, with no reference that names a message of the sequence.
ExampleShape(messages, target) ==
    /\ Len(messages) = 4
    /\ At(messages, 0).author # target
    /\ At(messages, 1).author # target
    /\ At(messages, 0).author # At(messages, 1).author
    /\ At(messages, 2).author = target
    /\ At(messages, 3).author = target
    /\ \A k \in 0..3 : At(messages, k).content # <<>>
    /\ \A k \in 0..2 : At(messages, k).timestamp < At(messages, k + 1).timestamp
    /\ At(messages, 3).timestamp - At(messages, 0).timestamp <= WindowSeconds
    /\ \A k \in 2..3 : \A r \in 0..3 : {At(messages, r).id} # At(messages, k).reference

ExampleRun == pc = "done" /\ Len(channels) = 1 /\ ExampleShape(channels[1], who)

\* C3 as stated: the example emits exactly one pair, whose prompt is the two
\* lines of both earlier messages and whose reply is the third message.
C3_ExampleAsStated ==
    ExampleRun =>
        replies = <<[prompt |-> Join(<<At(channels[1], 0).content,
                                       At(channels[1], 1).content>>),
                     reply |-> At(channels[1], 2).content]>>

\* C3 amended: the example emits exactly one pair, whose prompt is the single
\* line of the second message (the message at index 0 is never collected) and
\* whose reply is the third message; the fourth message emits nothing.
C3_Example ==
    ExampleRun =>
        /\ replies = <<[prompt |-> At(channels[1], 1).content,
                        reply |-> At(channels[1], 2).content]>>
        /\ origin[1].index = 2
        /\ origin[1].picked = <<1>>

C3_Witness ==
    /\ ExampleRun
    /\ At(channels[1], 1).content = Yo
    /\ At(channels[1], 3).reference # {}

\* ------------------------------------------------------------------- C4

\* The emitted pairs whose reference resolved to a message more than 10
\* minutes before the reply.
FarReference(k) ==
    /\ ReferenceHits(Msgs(k), origin[k].index) # {}
    /\ Trigger(k).timestamp
           - At(Msgs(k), Min(ReferenceHits(Msgs(k), origin[k].index))).timestamp
         > WindowSeconds

\* The messages strictly between r and i that have content, are not of the
\* target author and lie within 10 minutes of the message at r.
Intervening(messages, r, i) ==
    {j \in (r + 1)..(i - 1) :
        /\ At(messages, j).content # <<>>
        /\ At(messages, j).author # who
        /\ At(messages, j).timestamp - At(messages, r).timestamp <= WindowSeconds}

\* C4 as stated: the qualifying messages between the referenced message and
\* the reply are included in the emitted prompt.
C4_InterveningIncluded ==
    \A k \in Emitted :
        FarReference(k) =>
            Intervening(Msgs(k), Min(ReferenceHits(Msgs(k), origin[k].index)),
                        origin[k].index) \subseteq SourcePositions(k)

\* C4 amended: the cutoff is measured from the referenced message's time and
\* the walk runs backward from the referenced message, so the prompt is
\* collected from the referenced message (whenever it has content) and from
\* messages before it, all more than 10 minutes before the reply, and from no
\* message between the referenced message and the reply.
C4_ReferenceAnchoring ==
    \A k \in Emitted :
        FarReference(k) =>
            LET r == Min(ReferenceHits(Msgs(k), origin[k].index)) IN
            /\ origin[k].reference_time = At(Msgs(k), r).timestamp
            /\ SourcePositions(k) \subseteq 1..r
            /\ At(Msgs(k), r).content # <<>> => r \in SourcePositions(k)
            /\ \A p \in SourcePositions(k) :
                  Trigger(k).timestamp - At(Msgs(k), p).timestamp > WindowSeconds

C4_Witness ==
    \E k \in Emitted :
        /\ FarReference(k)
        /\ Intervening(Msgs(k), Min(ReferenceHits(Msgs(k), origin[k].index)),
                       origin[k].index) # {}
        /\ Min(ReferenceHits(Msgs(k), origin[k].index)) \in SourcePositions(k)

\* ------------------------------------------------------------------- C5

\* C5 (self-exclusion): no entry collected by a walk, and no line of an
\* emitted prompt, comes from a message of the target author, also when the
\* reference resolves to a message of the target author.
C5_SelfExclusion ==
    /\ Provenance
    /\ \A k \in Emitted : \A j \in DOMAIN Sources(k) : Sources(k)[j].author # who
    /\ InGetPrompt =>
          /\ Len(picked) = Len(outputs)
          /\ \A j \in DOMAIN picked :
                /\ At(Channel, picked[j]).author # who
                /\ At(Channel, picked[j]).content = outputs[j]
          /\ (pc = "walk" /\ At(Channel, anchor).author = who) => outputs = <<>>

C5_Witness ==
    /\ pc = "walk"
    /\ ReferenceHits(Channel, index) # {}
    /\ anchor = Min(ReferenceHits(Channel, index))
    /\ anchor >= 1
    /\ At(Channel, anchor).author = who
    /\ At(Channel, anchor).content # <<>>
    /\ ~WalkCond(Channel, innerdex, outputs, who, reference_time)

\* ------------------------------------------------------------------- C6

\* C6 as stated: at most 5 entries are ever collected, and every emitted
\* prompt is built from at most 5 messages and has at most 5 lines.
C6_FiveLines ==
    /\ Len(outputs) <= MaxContext
    /\ \A k \in Emitted :
          /\ Len(origin[k].picked) <= MaxContext
          /\ Lines(replies[k].prompt) <= MaxContext

\* C6 amended: at most 5 entries are ever collected and every emitted prompt
\* is built from at most 5 messages; its number of lines is the sum of the
\* numbers of lines of their contents, which is at most 5 when no collected
\* content holds a newline.
C6_LengthBound ==
    /\ Len(outputs) <= MaxContext
    /\ \A k \in Emitted :
          /\ Len(origin[k].picked) <= MaxContext
          /\ replies[k].prompt = Join([j \in DOMAIN Sources(k) |-> Sources(k)[j].content])
          /\ Lines(replies[k].prompt)
                = SumLines([j \in DOMAIN Sources(k) |-> Sources(k)[j].content])
          /\ (\A j \in DOMAIN Sources(k) : Lines(Sources(k)[j].content) = 1)
                => Lines(replies[k].prompt) <= MaxContext

\* A pair of 5 sources cut off by the cap: the message below the oldest source
\* would have been collected, and a message without content was stepped over.
C6_Witness ==
    \E k \in Emitted :
        /\ Len(origin[k].picked) = MaxContext
        /\ origin[k].picked[1] >= 2
        /\ At(Msgs(k), origin[k].picked[1] - 1).author # who
        /\ At(Msgs(k), origin[k].picked[1] - 1).content # <<>>
        /\ \E p \in origin[k].picked[1]..(origin[k].index - 1) :
              At(Msgs(k), p).content = <<>>
        /\ Lines(replies[k].prompt) > MaxContext

\* ------------------------------------------------------------------- C7

\* A measure of what get_prompt still has to do.
Rank ==
    IF pc = "scan" THEN 2 * index - reply_index
    ELSE IF pc = "walk" THEN innerdex
    ELSE 0

C7_Bounds ==
    /\ pc # "panicked"
    /\ InGetPrompt => ENABLED (ScanStep \/ WalkStep \/ WalkExit)
    /\ InGetPrompt =>
          /\ channel_index < Len(channels)
          /\ index \in 1..(Len(Channel) - 1)
          /\ At(Channel, index).author = who
          /\ innerdex \in 0..(index - 1)
    /\ pc = "scan" =>
          /\ reply_index \in 0..(index - 1)
          /\ ScanEnd(index) \in 0..Len(Channel)
    /\ \A k \in Emitted : \A j \in Emitted :
          k < j => \/ origin[k].channel < origin[j].channel
                   \/ /\ origin[k].channel = origin[j].channel
                      /\ origin[k].index < origin[j].index

C7_Steps ==
    /\ (InGetPrompt /\ pc' \in {"scan", "walk"}) => Rank' < Rank
    /\ (pc = "walk" /\ pc' = "walk") => innerdex' = innerdex - 1
    /\ Len(replies') \in {Len(replies), Len(replies) + 1}
    /\ Len(replies') # Len(replies) => (pc = "walk" /\ pc' = "window" /\ index' = index + 1)

\* C7 (totality): get_prompt never panics and never indexes out of bounds,
\* every step of its scan and of its walk lowers a non-negative measure (the
\* walk cursor falls by one on every iteration), get_prompt can always take
\* its next step, and each message yields no pair or exactly one pair.
C7_Totality == [](C7_Bounds) /\ [][C7_Steps]_vars

\* A walk that has come down to position 0 after stepping over every message
\* before the reply.
C7_Witness ==
    /\ pc = "walk"
    /\ innerdex = 0
    /\ index >= 3
    /\ anchor = index - 1
    /\ At(Channel, 0).author # who

\* ------------------------------------------------------------------- C8

NoPairFor(c, i) ==
    \A k \in Emitted : ~(origin[k].channel = c /\ origin[k].index = i)

\* C8 (emptiness rule): get_prompt is consulted only for messages of the
\* target author that have content; every emitted pair has a reply with
\* content, equal to the content of its triggering message, and a prompt that
\* is the join of at least one content, none of them empty; a message of the
\* target author without content has no pair.
C8_EmptinessRule ==
    /\ InGetPrompt => (At(Channel, index).author = who /\ At(Channel, index).content # <<>>)
    /\ Provenance
    /\ \A k \in Emitted :
          /\ Trigger(k).author = who
          /\ replies[k].reply # <<>>
          /\ replies[k].prompt # <<>>
          /\ origin[k].picked # <<>>
          /\ \A j \in DOMAIN Sources(k) : Sources(k)[j].content # <<>>
    /\ \A c \in DOMAIN channels : \A i \in 0..(Len(channels[c]) - 1) :
          At(channels[c], i).content = <<>> => NoPairFor(c - 1, i)

\* A finished run over a channel that holds a message of the target author
\* without content, a message of the target author with content for which
\* nothing was collected, and a message that did yield a pair.
C8_Witness ==
    /\ pc = "done"
    /\ \E c \in DOMAIN channels :
          /\ \E i \in 1..(Len(channels[c]) - 1) :
                /\ At(channels[c], i).author = who
                /\ At(channels[c], i).content = <<>>
          /\ \E i \in 1..(Len(channels[c]) - 1) :
                /\ At(channels[c], i).author = who
                /\ At(channels[c], i).content # <<>>
                /\ NoPairFor(c - 1, i)
          /\ \E k \in Emitted : origin[k].channel = c - 1

\* ------------------------------------------------------------------- C9

Occurrences(s, m) == Cardinality({k \in DOMAIN s : s[k] = m})

WithTimestamp(s, t) == SelectSeq(s, LAMBDA m : m.timestamp = t)

\* sorted is data in ascending order of timestamp, equal timestamps in the
\* order they have in data.
StablySorted(data, sorted) ==
    /\ Len(sorted) = Len(data)
    /\ \A k \in 1..(Len(sorted) - 1) : sorted[k].timestamp <= sorted[k + 1].timestamp
    /\ \A k \in DOMAIN data : Occurrences(sorted, data[k]) = Occurrences(data, data[k])
    /\ \A k \in DOMAIN data :
          WithTimestamp(sorted, data[k].timestamp) = WithTimestamp(data, data[k].timestamp)

C9_Sorted ==
    /\ Len(channels) <= Len(channel_files)
    /\ \A c \in DOMAIN channels :
          StablySorted(MapToMessage(channel_files[c].data), channels[c])

C9_Immutable ==
    \A c \in DOMAIN channels : c \in DOMAIN channels' /\ channels'[c] = channels[c]

\* C9 (ordering): every sequence handed to the windower is the parsed records
\* of its file in ascending order of timestamp, records of equal timestamp in
\* file order, and no step changes a sequence once it is built.
C9_Ordering == [](C9_Sorted) /\ [][C9_Immutable]_vars

\* A finished run over a file whose records were out of order and held two
\* different records of one timestamp.
C9_Witness ==
    /\ pc = "done"
    /\ \E c \in DOMAIN channels :
          /\ channels[c] # MapToMessage(channel_files[c].data)
          /\ \E k \in 1..(Len(channels[c]) - 1) :
                /\ channels[c][k].timestamp = channels[c][k + 1].timestamp
                /\ channels[c][k] # channels[c][k + 1]
          /\ \E k \in Emitted : origin[k].channel = c - 1

\* ------------------------------------------------------------------ C10

\* C10 (reference resolution boundary): the scan looks at positions 0 .. i-2
\* in ascending order and the walk begins on the first of them whose id is the
\* reference, measured from that message's time; with no such position (the id
\* is only at i-1, at or after i, or nowhere) the walk begins at i-1, measured
\* from the reply's own time, as for a reply without reference.
C10_ReferenceBoundary ==
    /\ pc = "scan" =>
          /\ At(Channel, index).reference # {}
          /\ reply_index \in 0..(index - 1)
          /\ \A r \in 0..(reply_index - 1) :
                {At(Channel, r).id} # At(Channel, index).reference
          /\ innerdex = index - 1
          /\ reference_time = At(Channel, index).timestamp
    /\ pc = "walk" =>
          IF ReferenceHits(Channel, index) = {}
          THEN /\ anchor = index - 1
               /\ reference_time = At(Channel, index).timestamp
          ELSE /\ anchor = Min(ReferenceHits(Channel, index))
               /\ reference_time = At(Channel, anchor).timestamp

\* A walk that begins at i-1 although the message at i-1, of another time than
\* the reply, carries the referenced id.
C10_Witness ==
    /\ pc = "walk"
    /\ innerdex = anchor
    /\ outputs = <<>>
    /\ index >= 2
    /\ {At(Channel, index - 1).id} = At(Channel, index).reference
    /\ At(Channel, index - 1).timestamp # At(Channel, index).timestamp
    /\ ReferenceHits(Channel, index) = {}
    /\ \E r \in index..(Len(Channel) - 1) :
          {At(Channel, r).id} = At(Channel, index).reference

====
